---- MODULE Spec2Model ----
(***************************************************************************)
(* Model of excel_to_pdf.py: generate_code128_barcode (the Symbol Encoder) *)
(* and excel_to_barcode_pdf (load, select columns, encode per cell,        *)
(* assemble, write).                                                       *)
(*                                                                         *)
(* A Python str is modelled as a sequence of one-character strings, so     *)
(* that strip / replace / lower are computed character by character.       *)
(***************************************************************************)
EXTENDS Integers, Sequences, FiniteSets, TLC

VARIABLES
    pc,          \* position in excel_to_barcode_pdf
    input_file,  \* what is at the path input_excel: Missing or a sheet
    df,          \* the DataFrame: [columns, rows] or NoFrame
    available_cols,
    table_data,  \* list of rows; row 1 is header_row
    row_idx,     \* index of the row df.iterrows() yields next
    row_cells,   \* the row being built
    field_i,     \* loop variable i of "for i in range(1, 5)"
    calls,       \* log of generate_code128_barcode invocations: the row, the
                 \* column asked for, the value passed, and whether
                 \* barcode.get was reached
    warnings,    \* number of warning lines printed by the encoder
    out_file,    \* what is at the path output_pdf
    out_before,  \* what was at output_pdf when the run started
    writes,      \* number of times pdf.build reached the output path
    exc,         \* exception that left excel_to_barcode_pdf, or "none"
    success_printed,
    enc_pc,      \* direct call of the encoder: "idle" or "returned"
    enc_value, enc_width, enc_height, enc_result

vars == <<pc, input_file, df, available_cols, table_data, row_idx, row_cells,
          field_i, calls, warnings, out_file, out_before, writes, exc,
          success_printed, enc_pc, enc_value, enc_width, enc_height, enc_result>>

pipeline_vars == <<pc, input_file, df, available_cols, table_data, row_idx,
                   row_cells, field_i, calls, warnings, out_file, out_before,
                   writes, exc, success_printed>>

enc_vars == <<enc_pc, enc_value, enc_width, enc_height, enc_result>>

----------------------------------------------------------------------------
(* Bounds *)

MaxLen == 4      \* longest string handed directly to the encoder
MaxCells == 4    \* most cells (columns times data rows) in the input sheet

(* Program constants *)

DefaultWidth == 80
DefaultHeight == 25

----------------------------------------------------------------------------
(* Python strings *)

SP == " "
TAB == "\t"
NonAscii == "U+00E9"       \* one character outside the ASCII range

Letters == {"n", "a", "N", "A"}
Digits == {"1"}
Alphabet == Letters \cup Digits \cup {SP, TAB, NonAscii}

\* Python values: a str carries its characters, the float NaN (a missing
\* cell) carries none
Str(s) == [kind |-> "str", data |-> s]
NaN == [kind |-> "float_nan", data |-> <<>>]

\* str.isspace for one character
IsSpace(c) == c \in {SP, TAB}

RECURSIVE lstrip(_)
lstrip(s) ==
    IF s = <<>> THEN <<>>
    ELSE IF IsSpace(Head(s)) THEN lstrip(Tail(s)) ELSE s

RECURSIVE rstrip(_)
rstrip(s) ==
    IF s = <<>> THEN <<>>
    ELSE IF IsSpace(s[Len(s)]) THEN rstrip(SubSeq(s, 1, Len(s) - 1)) ELSE s

\* str.strip()
strip(s) == rstrip(lstrip(s))

\* str.replace(" ", "")
RECURSIVE remove_spaces(_)
remove_spaces(s) ==
    IF s = <<>> THEN <<>>
    ELSE IF Head(s) = SP THEN remove_spaces(Tail(s))
         ELSE <<Head(s)>> \o remove_spaces(Tail(s))

lower_char(c) ==
    CASE c = "N" -> "n"
      [] c = "A" -> "a"
      [] OTHER -> c

\* str.lower()
lower(s) == [k \in 1..Len(s) |-> lower_char(s[k])]

nan_text == <<"n", "a", "n">>

\* str(value): a str is itself, the float NaN prints as "nan"
str(value) == IF value.kind = "float_nan" THEN nan_text ELSE value.data

----------------------------------------------------------------------------
(* generate_code128_barcode *)

Empty == Str(<<>>)          \* the empty string ""

\* Image(buffer, width=width, height=height)
ImageSwapped(cleaned, width, height) ==
    [kind |-> "Image", data |-> cleaned, width |-> height, height |-> width]

Image(cleaned, width, height) ==
    [kind |-> "Image", data |-> cleaned, width |-> width, height |-> height]

\* barcode.get("code128", cleaned, ...) accepts the ASCII range only and
\* raises on any other character
code128_ok(cleaned) == \A k \in 1..Len(cleaned) : cleaned[k] # NonAscii

\* cleaned = str(value).strip().replace(" ", "")
clean(value) == remove_spaces(strip(str(value)))

\* "not cleaned or cleaned.lower() == 'nan'", with the lower() forgotten
is_no_data_case_sensitive(cleaned) == cleaned = <<>> \/ cleaned = nan_text

is_no_data(cleaned) == cleaned = <<>> \/ lower(cleaned) = nan_text

\* the encoder without its try/except: the library's exception escapes
generate_code128_barcode_unguarded(value, width, height) ==
    LET cleaned == clean(value) IN
    IF is_no_data(cleaned)
    THEN [ret |-> Empty, attempted |-> FALSE, warned |-> FALSE, raised |-> FALSE]
    ELSE IF code128_ok(cleaned)
    THEN [ret |-> Image(cleaned, width, height), attempted |-> TRUE,
          warned |-> FALSE, raised |-> FALSE]
    ELSE [ret |-> Empty, attempted |-> TRUE, warned |-> FALSE, raised |-> TRUE]

\* ret: what is returned; attempted: the try block was entered;
\* warned: the warning was printed; raised: an exception left the function
generate_code128_barcode(value, width, height) ==
    LET cleaned == clean(value) IN
    IF is_no_data(cleaned)
    THEN [ret |-> Empty, attempted |-> FALSE, warned |-> FALSE, raised |-> FALSE]
    ELSE IF code128_ok(cleaned)
    THEN [ret |-> Image(cleaned, width, height), attempted |-> TRUE,
          warned |-> FALSE, raised |-> FALSE]
    ELSE [ret |-> Empty, attempted |-> TRUE, warned |-> TRUE, raised |-> FALSE]

----------------------------------------------------------------------------
(* Direct calls of the encoder *)

RECURSIVE StringsUpTo(_)
StringsUpTo(n) ==
    IF n = 0 THEN {<<>>}
    ELSE LET shorter == StringsUpTo(n - 1) IN
         shorter \cup {Append(s, c) : s \in {t \in shorter : Len(t) = n - 1},
                                       c \in Alphabet}

EncValues == {Str(s) : s \in StringsUpTo(MaxLen)} \cup {NaN}
Widths == {DefaultWidth, 40}
Heights == {DefaultHeight, 40}

NotCalled == [ret |-> Empty, attempted |-> FALSE, warned |-> FALSE,
              raised |-> FALSE]

PipelineIdle ==
    /\ pc = "idle"
    /\ input_file = [state |-> "missing", columns |-> <<>>, rows |-> <<>>]
    /\ df = [columns |-> <<>>, rows |-> <<>>]
    /\ available_cols = <<>>
    /\ table_data = <<>>
    /\ row_idx = 1
    /\ row_cells = <<>>
    /\ field_i = 1
    /\ calls = <<>>
    /\ warnings = 0
    /\ out_file = "absent"
    /\ out_before = "absent"
    /\ writes = 0
    /\ exc = "none"
    /\ success_printed = FALSE

InitEnc ==
    /\ PipelineIdle
    /\ enc_pc = "idle"
    /\ enc_value \in EncValues
    /\ enc_width \in Widths
    /\ enc_height \in Heights
    /\ enc_result = NotCalled

EncCall ==
    /\ enc_pc = "idle"
    /\ enc_result' = generate_code128_barcode(enc_value, enc_width, enc_height)
    /\ enc_pc' = "returned"
    /\ UNCHANGED <<enc_value, enc_width, enc_height>>
    /\ UNCHANGED pipeline_vars

NextEnc == EncCall

SpecEnc == InitEnc /\ [][NextEnc]_vars

----------------------------------------------------------------------------
(* The input sheet and the DataFrame *)

Range(s) == {s[k] : k \in 1..Len(s)}

expected_cols ==
    <<"S.No.", "Applicant No", "Artisan Name",
      "Label Number 1", "Label Number 2", "Label Number 3", "Label Number 4">>

\* for i in range(1, 5), lines 93 and 103
barcode_header_numbers == <<1, 2, 3, 4>>

label_numbers_short == <<1, 2, 3>>

label_numbers == <<1, 2, 3, 4>>

\* f"Label Number {i}"
label_col(i) ==
    CASE i = 1 -> "Label Number 1"
      [] i = 2 -> "Label Number 2"
      [] i = 3 -> "Label Number 3"
      [] i = 4 -> "Label Number 4"
      [] OTHER -> "Label Number 5"

\* f"Label {i} Barcode"
barcode_header(i) ==
    CASE i = 1 -> "Label 1 Barcode"
      [] i = 2 -> "Label 2 Barcode"
      [] i = 3 -> "Label 3 Barcode"
      [] i = 4 -> "Label 4 Barcode"
      [] OTHER -> "Label 5 Barcode"

barcode_headers ==
    [k \in 1..Len(barcode_header_numbers) |-> barcode_header(barcode_header_numbers[k])]

NoFrame == [columns |-> <<>>, rows |-> <<>>]

\* pd.read_excel(input_excel) that swallows the failure and yields an empty frame
read_excel_lenient(file) ==
    IF file.state = "sheet"
    THEN [ok |-> TRUE, frame |-> [columns |-> file.columns, rows |-> file.rows]]
    ELSE [ok |-> TRUE, frame |-> NoFrame]

\* pd.read_excel(input_excel): raises unless the path holds a parseable sheet
read_excel(file) ==
    IF file.state = "sheet"
    THEN [ok |-> TRUE, frame |-> [columns |-> file.columns, rows |-> file.rows]]
    ELSE [ok |-> FALSE, frame |-> NoFrame]

\* one cell through fillna("").astype(str)
fill_cell(v) == IF v.kind = "float_nan" THEN Str(<<>>) ELSE Str(str(v))

\* df.fillna("").astype(str)
fillna_astype_str(frame) ==
    [columns |-> frame.columns,
     rows |-> [r \in 1..Len(frame.rows) |->
                 [k \in 1..Len(frame.columns) |-> fill_cell(frame.rows[r][k])]]]

index_of(columns, col) == CHOOSE k \in 1..Len(columns) : columns[k] = col

\* df[cols]
project(frame, cols) ==
    [columns |-> cols,
     rows |-> [r \in 1..Len(frame.rows) |->
                 [k \in 1..Len(cols) |-> frame.rows[r][index_of(frame.columns, cols[k])]]]]

\* df.drop(columns=["Label Number 5"]) when the column is present
drop_label5(frame) ==
    project(frame, SelectSeq(frame.columns, LAMBDA c : c # "Label Number 5"))

\* the selection taken in the order of the file's columns
available_in_file_order(columns) ==
    SelectSeq(columns, LAMBDA c : c \in Range(expected_cols))

\* [col for col in expected_cols if col in df.columns]
compute_available_cols(columns) ==
    SelectSeq(expected_cols, LAMBDA c : c \in Range(columns))

\* the column handling left out: the frame goes on as loaded
column_selection_keep_all(frame) == frame

\* lines 75-90: drop "Label Number 5", then df[available_cols]
column_selection(frame) ==
    LET dropped == drop_label5(frame) IN
    project(dropped, compute_available_cols(dropped.columns))

\* "if not available_cols: raise ValueError", never taken
schema_error_never(cols) == FALSE

schema_error(cols) == cols = <<>>

\* row.get(col, default)
row_get(columns, row, col, default) ==
    IF col \in Range(columns) THEN row[index_of(columns, col)] ELSE default

\* [row.get(col, "") for col in available_cols]
text_cells(columns, row, cols) ==
    [k \in 1..Len(cols) |-> row_get(columns, row, cols[k], Empty)]

----------------------------------------------------------------------------
(* Inputs *)

Perms(S) ==
    {f \in [1..Cardinality(S) -> S] : \A i, j \in 1..Cardinality(S) : i # j => f[i] # f[j]}

\* the column sets the sheets are drawn from, each in every order
SampleColumnSets ==
    { {},
      {"Remarks"},
      {"Label Number 5"},
      {"Label Number 5", "Remarks"},
      {"Label Number 1"},
      {"Label Number 1", "S.No."},
      {"Label Number 2", "Label Number 5"},
      {"Label Number 4", "Label Number 3"},
      {"S.No.", "Artisan Name", "Label Number 1"},
      {"Applicant No", "Label Number 5", "Label Number 2"} }

Layouts == UNION {Perms(S) : S \in SampleColumnSets}

Marker5 == Str(<<"A", "A", "1">>)    \* a value only "Label Number 5" holds
GoodLabel == Str(<<"A", SP, "1">>)
NanLabel == Str(<<"N", "a", "N", SP>>)
BadLabel == Str(<<NonAscii, "1">>)
TextOne == Str(<<"1">>)

LabelCols == {"Label Number 1", "Label Number 2", "Label Number 3", "Label Number 4"}

RawCells(col) ==
    IF col = "Label Number 5" THEN {Marker5, GoodLabel}
    ELSE IF col \in LabelCols THEN {NaN, NanLabel, GoodLabel, BadLabel}
    ELSE {NaN, TextOne}

AllRaw == {NaN, NanLabel, GoodLabel, BadLabel, TextOne, Marker5}

RowsOf(cols) ==
    {r \in [1..Len(cols) -> AllRaw] : \A k \in 1..Len(cols) : r[k] \in RawCells(cols[k])}

\* a sheet without columns has no rows
RowCounts(cols) ==
    IF cols = <<>> THEN {0} ELSE {m \in 0..MaxCells : m * Len(cols) <= MaxCells}

Sheets ==
    UNION {UNION {{[state |-> "sheet", columns |-> cols, rows |-> rows] :
                      rows \in [1..m -> RowsOf(cols)]} : m \in RowCounts(cols)} :
             cols \in Layouts}

InputFiles ==
    Sheets \cup {[state |-> "missing", columns |-> <<>>, rows |-> <<>>],
                 [state |-> "unparseable", columns |-> <<>>, rows |-> <<>>]}

----------------------------------------------------------------------------
(* excel_to_barcode_pdf *)

EncoderIdle ==
    /\ enc_pc = "idle"
    /\ enc_value = Empty
    /\ enc_width = DefaultWidth
    /\ enc_height = DefaultHeight
    /\ enc_result = NotCalled

Init ==
    /\ pc = "start"
    /\ input_file \in InputFiles
    /\ df = NoFrame
    /\ available_cols = <<>>
    /\ table_data = <<>>
    /\ row_idx = 1
    /\ row_cells = <<>>
    /\ field_i = 1
    /\ calls = <<>>
    /\ warnings = 0
    /\ out_before \in {"absent", "old"}
    /\ out_file = out_before
    /\ writes = 0
    /\ exc = "none"
    /\ success_printed = FALSE
    /\ EncoderIdle

\* lines 68-71
Load ==
    /\ pc = "start"
    /\ LET got == read_excel(input_file) IN
       IF got.ok
       THEN /\ df' = got.frame
            /\ pc' = "loaded"
            /\ exc' = exc
       ELSE /\ df' = df
            /\ pc' = "raised"
            /\ exc' = "FileNotFoundError"
    /\ UNCHANGED <<input_file, available_cols, table_data, row_idx, row_cells,
                   field_i, calls, warnings, out_file, out_before, writes,
                   success_printed>>
    /\ UNCHANGED enc_vars

\* lines 73-96
SelectColumns ==
    /\ pc = "loaded"
    /\ LET selected == column_selection(fillna_astype_str(df)) IN
       IF schema_error(selected.columns)
       THEN /\ pc' = "raised"
            /\ exc' = "ValueError"
            /\ available_cols' = selected.columns
            /\ UNCHANGED <<df, table_data>>
       ELSE /\ pc' = "rows"
            /\ exc' = exc
            /\ df' = selected
            /\ available_cols' = selected.columns
            /\ table_data' = <<selected.columns \o barcode_headers>>
    /\ UNCHANGED <<input_file, row_idx, row_cells, field_i, calls, warnings,
                   out_file, out_before, writes, success_printed>>
    /\ UNCHANGED enc_vars

\* lines 99-100: the next row of df.iterrows() and its text cells
RowStart ==
    /\ pc = "rows"
    /\ row_idx <= Len(df.rows)
    /\ row_cells' = text_cells(df.columns, df.rows[row_idx], available_cols)
    /\ field_i' = 1
    /\ pc' = "fields"
    /\ UNCHANGED <<input_file, df, available_cols, table_data, row_idx, calls,
                   warnings, out_file, out_before, writes, exc, success_printed>>
    /\ UNCHANGED enc_vars

\* lines 103-106: one pass of the loop over the label numbers
EncodeCell ==
    /\ pc = "fields"
    /\ field_i <= Len(label_numbers)
    /\ LET col == label_col(label_numbers[field_i])
           value == row_get(df.columns, df.rows[row_idx], col, Empty)
           res == generate_code128_barcode(value, DefaultWidth, DefaultHeight)
       IN /\ calls' = Append(calls, [row |-> row_idx, col |-> col, value |-> value,
                                      attempted |-> res.attempted])
          /\ warnings' = IF res.warned THEN warnings + 1 ELSE warnings
          /\ IF res.raised
             THEN /\ pc' = "raised"
                  /\ exc' = "EncoderError"
                  /\ UNCHANGED <<row_cells, field_i>>
             ELSE /\ row_cells' = Append(row_cells, res.ret)
                  /\ field_i' = field_i + 1
                  /\ UNCHANGED <<pc, exc>>
    /\ UNCHANGED <<input_file, df, available_cols, table_data, row_idx,
                   out_file, out_before, writes, success_printed>>
    /\ UNCHANGED enc_vars

\* line 108
RowEnd ==
    /\ pc = "fields"
    /\ field_i > Len(label_numbers)
    /\ table_data' = Append(table_data, row_cells)
    /\ row_idx' = row_idx + 1
    /\ pc' = "rows"
    /\ UNCHANGED <<input_file, df, available_cols, row_cells, field_i, calls,
                   warnings, out_file, out_before, writes, exc, success_printed>>
    /\ UNCHANGED enc_vars

\* What pdf.build can do to the output path.  The function hands output_pdf to
\* SimpleDocTemplate and calls build once, with no temporary file, rename or
\* clean-up around it:
\*   "ok"           the document is laid out, the path opened and written
\*   "layout_error" building the flowables raises before the path is opened
\*   "open_error"   the path cannot be opened for writing
\*   "write_error"  the path was opened (and so truncated) and the write
\*                  stopped part-way
BuildOutcomes == {"ok", "layout_error", "open_error", "write_error"}

file_after_build(outcome, before) ==
    CASE outcome = "ok" -> "complete"
      [] outcome = "write_error" -> "partial"
      [] OTHER -> before

\* the build reports success whatever happened
build_raises_never(outcome) == FALSE

build_raises(outcome) == outcome # "ok"

\* lines 111-126
Build ==
    /\ pc = "rows"
    /\ row_idx > Len(df.rows)
    /\ \E outcome \in BuildOutcomes :
         /\ out_file' = file_after_build(outcome, out_file)
         /\ writes' = IF outcome \in {"ok", "write_error"} THEN writes + 1 ELSE writes
         /\ IF build_raises(outcome)
            THEN /\ pc' = "raised"
                 /\ exc' = "BuildError"
            ELSE /\ pc' = "built"
                 /\ exc' = exc
    /\ UNCHANGED <<input_file, df, available_cols, table_data, row_idx,
                   row_cells, field_i, calls, warnings, out_before,
                   success_printed>>
    /\ UNCHANGED enc_vars

\* line 128
PrintSuccess ==
    /\ pc = "built"
    /\ success_printed' = TRUE
    /\ pc' = "done"
    /\ UNCHANGED <<input_file, df, available_cols, table_data, row_idx,
                   row_cells, field_i, calls, warnings, out_file, out_before,
                   writes, exc>>
    /\ UNCHANGED enc_vars

Next ==
    \/ Load
    \/ SelectColumns
    \/ RowStart
    \/ EncodeCell
    \/ RowEnd
    \/ Build
    \/ PrintSuccess

Spec == Init /\ [][Next]_vars

----------------------------------------------------------------------------
(* The whole pipeline on a sheet of one "Label Number 1" cell, over every   *)
(* string up to MaxLen                                                      *)

OneCellSheets ==
    {[state |-> "sheet", columns |-> <<"Label Number 1">>, rows |-> <<<<v>>>>] :
        v \in EncValues}

InitCell ==
    /\ pc = "start"
    /\ input_file \in OneCellSheets
    /\ df = NoFrame
    /\ available_cols = <<>>
    /\ table_data = <<>>
    /\ row_idx = 1
    /\ row_cells = <<>>
    /\ field_i = 1
    /\ calls = <<>>
    /\ warnings = 0
    /\ out_before = "absent"
    /\ out_file = out_before
    /\ writes = 0
    /\ exc = "none"
    /\ success_printed = FALSE
    /\ EncoderIdle

SpecCell == InitCell /\ [][Next]_vars

----------------------------------------------------------------------------
(* Vocabulary of the properties, stated apart from the code's operators *)

SevenExpected ==
    <<"S.No.", "Applicant No", "Artisan Name", "Label Number 1",
      "Label Number 2", "Label Number 3", "Label Number 4">>

ExpectedRank(c) == CHOOSE k \in 1..Len(SevenExpected) : SevenExpected[k] = c

FourBarcodeLabels ==
    <<"Label 1 Barcode", "Label 2 Barcode", "Label 3 Barcode", "Label 4 Barcode">>

FourLabelFields ==
    <<"Label Number 1", "Label Number 2", "Label Number 3", "Label Number 4">>

InputIsSheet == input_file.state = "sheet"

PresentExpected == Range(SevenExpected) \cap Range(input_file.columns)

InputRowCount == Len(input_file.rows)

\* the text of the sheet's cell in data row r under column col ("" for a
\* missing cell or an absent column)
InputText(r, col) ==
    IF col \in Range(input_file.columns)
    THEN LET raw == input_file.rows[r][CHOOSE k \in 1..Len(input_file.columns) :
                                            input_file.columns[k] = col]
         IN IF raw.kind = "float_nan" THEN <<>> ELSE raw.data
    ELSE <<>>

NonSpaceAt(s) == {k \in 1..Len(s) : s[k] \notin {" ", "\t"}}

\* s without its leading and trailing whitespace
Trimmed(s) ==
    IF NonSpaceAt(s) = {} THEN <<>>
    ELSE LET first == CHOOSE k \in NonSpaceAt(s) : \A m \in NonSpaceAt(s) : k <= m
             last == CHOOSE k \in NonSpaceAt(s) : \A m \in NonSpaceAt(s) : k >= m
         IN SubSeq(s, first, last)

WithoutSpaces(s) == SelectSeq(s, LAMBDA c : c # " ")

IsNanWord(s) ==
    /\ Len(s) = 3
    /\ s[1] \in {"n", "N"}
    /\ s[2] \in {"a", "A"}
    /\ s[3] \in {"n", "N"}

\* empty, whitespace-only, or "nan" in any case after trimming
NoData(s) == Trimmed(s) = <<>> \/ IsNanWord(Trimmed(s))

\* the number of text columns of the assembled table
TextWidth == Len(available_cols)

\* the table is handed to the document build
Assembled == pc \in {"built", "done"} \/ writes > 0 \/ exc = "BuildError"

----------------------------------------------------------------------------
\* C1: when the sheet has at least one of the seven expected columns, the
\* header row is the expected columns that are present, in the fixed expected
\* order whatever the order in the sheet, followed by exactly "Label 1
\* Barcode" .. "Label 4 Barcode".
C1_HeaderInExpectedOrder ==
    (InputIsSheet /\ PresentExpected # {} /\ pc \notin {"start", "loaded"}) =>
        /\ table_data # <<>>
        /\ LET h == table_data[1]
               n == Len(table_data[1]) - 4
           IN /\ n >= 1
              /\ SubSeq(h, n + 1, n + 4) = FourBarcodeLabels
              /\ {h[k] : k \in 1..n} = PresentExpected
              /\ \A i, j \in 1..n : i < j => ExpectedRank(h[i]) < ExpectedRank(h[j])

\* a finished run on a sheet whose columns are out of the expected order
C1_Witness ==
    /\ pc = "done"
    /\ input_file.columns = <<"Label Number 1", "Artisan Name", "S.No.">>
    /\ table_data[1] = <<"S.No.", "Artisan Name", "Label Number 1">> \o FourBarcodeLabels

\* C2: when none of the seven expected columns is present the run ends with
\* the schema error (ValueError); the encoder is never invoked, no document is
\* built and the output path is left as it was.
C2_SchemaErrorBeforeAnyWork ==
    (InputIsSheet /\ PresentExpected = {}) =>
        /\ pc \in {"start", "loaded", "raised"}
        /\ (pc = "raised" => exc = "ValueError")
        /\ calls = <<>>
        /\ table_data = <<>>
        /\ writes = 0
        /\ out_file = out_before
        /\ ~success_printed

\* the schema error raised on a sheet that has rows but only unrelated columns
C2_Witness ==
    /\ pc = "raised"
    /\ exc = "ValueError"
    /\ input_file.columns = <<"Remarks", "Label Number 5">>
    /\ InputRowCount = 2

\* C9: when the input path is missing or cannot be parsed, the run ends with
\* the source-read error before anything else: no column selection, no encoder
\* invocation, no write, no success diagnostic.
C9_ReadErrorBeforeAnyWork ==
    ~InputIsSheet =>
        /\ pc \in {"start", "raised"}
        /\ (pc = "raised" => exc = "FileNotFoundError")
        /\ df = NoFrame
        /\ available_cols = <<>>
        /\ table_data = <<>>
        /\ calls = <<>>
        /\ writes = 0
        /\ out_file = out_before
        /\ ~success_printed

\* the read error raised on an unparseable file, an older output left in place
C9_Witness ==
    /\ pc = "raised"
    /\ exc = "FileNotFoundError"
    /\ input_file.state = "unparseable"
    /\ out_file = "old"

\* C3: a cell value that is empty, whitespace-only or "nan" in any case after
\* trimming makes the encoder return Empty without reaching the barcode
\* library, and the barcode cell of that row and field is blank.
C3_NoDataIsBlank ==
    /\ \A k \in 1..Len(calls) :
          NoData(calls[k].value.data) => ~calls[k].attempted
    /\ (\E k \in 1..Len(calls) : calls[k].attempted) \/ warnings = 0
    /\ \A r \in 1..(Len(table_data) - 1) : \A f \in 1..4 :
          NoData(InputText(r, FourLabelFields[f])) =>
              /\ Len(table_data[r + 1]) >= TextWidth + f
              /\ table_data[r + 1][TextWidth + f] = Empty
    /\ pc = "fields" =>
          \A f \in 1..(Len(row_cells) - TextWidth) :
              NoData(InputText(row_idx, FourLabelFields[f])) =>
                  row_cells[TextWidth + f] = Empty

\* a finished run whose one label cell reads " NAn": that cell is blank
C3_Witness ==
    /\ pc = "done"
    /\ input_file.rows[1][1] = Str(<<" ", "N", "A", "n">>)
    /\ calls[1].value = Str(<<" ", "N", "A", "n">>)
    /\ table_data[2][2] = Empty

C4_InScope ==
    /\ enc_pc = "returned"
    /\ enc_value.kind = "str"
    /\ \A k \in 1..Len(enc_value.data) :
          enc_value.data[k] \in Letters \cup Digits \cup {" "}
    /\ WithoutSpaces(enc_value.data) # <<>>

C4_ImageOfRequestedSize ==
    /\ enc_result.ret.kind = "Image"
    /\ enc_result.ret.width = enc_width
    /\ enc_result.ret.height = enc_height

\* C4 as stated: every non-empty value of ASCII letters and digits (spaces
\* stripped) is returned as an image, never Empty, of the requested width
\* and height.
C4_EveryEncodableValueIsAnImage == C4_InScope => C4_ImageOfRequestedSize

\* C4, amended: every non-empty value of ASCII letters and digits (spaces
\* stripped) other than "nan" in any case is returned as an image, never
\* Empty, of the requested width and height.
C4_EncodableValueNotNanIsAnImage ==
    (C4_InScope /\ ~IsNanWord(WithoutSpaces(enc_value.data))) =>
        C4_ImageOfRequestedSize

\* "A 1" encoded at 40 by 25
C4_Witness ==
    /\ enc_pc = "returned"
    /\ enc_value = Str(<<"A", " ", "1">>)
    /\ enc_width = 40
    /\ enc_height = 25
    /\ enc_result.ret = [kind |-> "Image", data |-> <<"A", "1">>,
                         width |-> 40, height |-> 25]

\* the library rejects the value: it is not no-data and holds a character
\* outside the ASCII range
Unencodable(s) == ~NoData(s) /\ \E k \in 1..Len(s) : s[k] = NonAscii

HasUnencodableCell ==
    \E r \in 1..InputRowCount : \E f \in 1..4 :
        Unencodable(InputText(r, FourLabelFields[f]))

\* C5: an encoder failure on one cell is not fatal: a warning is printed for
\* it, that cell is blank, every row and field is still processed and handed
\* to the build, and every other cell is what its own value alone gives: the
\* text cells verbatim, an image for every value the library accepts.
C5_EncoderFailureIsIsolated ==
    (InputIsSheet /\ HasUnencodableCell) =>
        /\ exc # "EncoderError"
        /\ warnings = Cardinality({k \in 1..Len(calls) : Unencodable(calls[k].value.data)})
        /\ (Assembled => Len(table_data) = 1 + InputRowCount)
        /\ (Assembled => Len(calls) = 4 * InputRowCount)
        /\ \A r \in 1..(Len(table_data) - 1) :
              /\ Len(table_data[r + 1]) = TextWidth + 4
              /\ \A k \in 1..TextWidth :
                    table_data[r + 1][k] = Str(InputText(r, available_cols[k]))
              /\ \A f \in 1..4 :
                    LET v == InputText(r, FourLabelFields[f])
                        cell == table_data[r + 1][TextWidth + f]
                    IN /\ Unencodable(v) => cell = Empty
                       /\ (~Unencodable(v) /\ ~NoData(v)) =>
                             /\ cell.kind = "Image"
                             /\ cell.data = WithoutSpaces(Trimmed(v))

\* a document written from a two-row sheet: one cell failed with a warning,
\* the cells around it hold their images
C5_Witness ==
    /\ pc = "done"
    /\ out_file = "complete"
    /\ warnings = 1
    /\ input_file.columns = <<"Label Number 4", "Label Number 3">>
    /\ input_file.rows = << <<BadLabel, GoodLabel>>, <<GoodLabel, GoodLabel>> >>
    /\ table_data[2][6] = Empty
    /\ table_data[2][5].kind = "Image"
    /\ table_data[3][6].kind = "Image"

\* C6: when the sheet has a "Label Number 5" column, whatever it holds and
\* whatever other columns there are, "Label Number 5" is not in the header,
\* none of its values reaches a text cell, and none is passed to the encoder.
C6_Label5NeverUsed ==
    (InputIsSheet /\ "Label Number 5" \in Range(input_file.columns)) =>
        /\ "Label Number 5" \notin Range(available_cols)
        /\ "Label Number 5" \notin Range(df.columns) \/ pc \in {"start", "loaded", "raised"}
        /\ (table_data # <<>> => "Label Number 5" \notin Range(table_data[1]))
        /\ \A k \in 1..Len(calls) :
              /\ calls[k].col # "Label Number 5"
              /\ calls[k].value # Marker5
        /\ \A r \in 2..Len(table_data) : \A c \in 1..Len(table_data[r]) :
              /\ table_data[r][c] # Marker5
              /\ c <= Len(table_data[r]) - 4 =>
                    table_data[r][c] = Str(InputText(r - 1, table_data[1][c]))
        /\ \A c \in 1..Len(row_cells) : row_cells[c] # Marker5

\* a finished two-row run on a sheet whose "Label Number 5" column holds a
\* value found nowhere else
C6_Witness ==
    /\ pc = "done"
    /\ input_file.columns = <<"Label Number 5", "Label Number 2">>
    /\ input_file.rows = << <<Marker5, GoodLabel>>, <<Marker5, NaN>> >>
    /\ Len(table_data) = 3

\* C7: the assembled table is one header row and then one data row per input
\* record, in input order; every data row is as long as the header: the
\* selected text cells verbatim, then four barcode cells for Label Number
\* 1..4, each the image of that row's value of that field or blank, and blank
\* whenever that field's column is absent from the sheet.
C7_TableShape ==
    /\ Assembled => Len(table_data) = 1 + InputRowCount
    /\ table_data # <<>> =>
          /\ Len(table_data) <= 1 + InputRowCount
          /\ Len(table_data[1]) = TextWidth + 4
          /\ \A r \in 1..(Len(table_data) - 1) :
                LET row == table_data[r + 1] IN
                /\ Len(row) = Len(table_data[1])
                /\ \A k \in 1..TextWidth :
                      row[k] = Str(InputText(r, table_data[1][k]))
                /\ \A f \in 1..4 :
                      LET v == InputText(r, FourLabelFields[f])
                          cell == row[TextWidth + f]
                      IN /\ \/ cell = Empty
                            \/ cell = [kind |-> "Image",
                                       data |-> WithoutSpaces(Trimmed(v)),
                                       width |-> 80, height |-> 25]
                         /\ FourLabelFields[f] \notin Range(input_file.columns) =>
                               cell = Empty

\* the scenario shape: text columns and Label Number 1 only, an image in the
\* first barcode cell and blanks in the other three
C7_Witness ==
    /\ pc = "done"
    /\ input_file.columns = <<"S.No.", "Artisan Name", "Label Number 1">>
    /\ input_file.rows = << <<TextOne, NaN, GoodLabel>> >>
    /\ table_data[2] = <<TextOne, Empty, GoodLabel,
                         [kind |-> "Image", data |-> <<"A", "1">>,
                          width |-> 80, height |-> 25],
                         Empty, Empty, Empty>>

\* C8: the output file is written all-or-nothing: after any run, failed
\* builds and writes included, the output path holds the complete document
\* of this run or nothing this run produced, never a partial file.
C8_OutputAllOrNothing ==
    /\ out_file # "partial"
    /\ out_file \in {"complete", out_before}

\* C10: in a run that passes loading and column selection the encoder is
\* invoked exactly once per (row, field): rows in table order, fields 1..4
\* within a row, on that row's value of that field, nothing skipped or
\* repeated, 4 times the number of rows in all; every invocation precedes the
\* single write, and the success diagnostic comes only after the write is
\* complete.
C10_StrictSequence ==
    /\ calls # <<>> => table_data # <<>>
    /\ \A k \in 1..Len(calls) :
          /\ calls[k].row = ((k - 1) \div 4) + 1
          /\ calls[k].row <= InputRowCount
          /\ calls[k].col = FourLabelFields[((k - 1) % 4) + 1]
          /\ calls[k].value = Str(InputText(calls[k].row, calls[k].col))
    /\ table_data # <<>> =>
          \/ Len(calls) = 4 * (Len(table_data) - 1) + (Len(row_cells) - TextWidth)
          \/ pc = "rows" /\ Len(calls) = 4 * (Len(table_data) - 1)
          \/ Assembled /\ Len(calls) = 4 * (Len(table_data) - 1)
    /\ Assembled => Len(calls) = 4 * InputRowCount
    /\ writes <= 1
    /\ pc \in {"built", "done"} => (writes = 1 /\ out_file = "complete")
    /\ success_printed => (pc = "done" /\ writes = 1 /\ out_file = "complete"
                              /\ exc = "none")

\* a finished run of four rows that all hold the same encodable value: sixteen
\* invocations, the diagnostic printed after the write
C10_Witness ==
    /\ pc = "done"
    /\ success_printed
    /\ InputRowCount = 4
    /\ Len(calls) = 16
    /\ \A r \in 1..4 : calls[4 * r - 3].value = GoodLabel

====
